---- MODULE Spec2Model ----
(***************************************************************************)
(* Model of the teacher/student training system: the command-line entry    *)
(* point (main.py), the orchestrator (src/core/orchestrator.py) and the     *)
(* teacher controller it calls.  One coroutine runs; its position is pc.    *)
(* Every awaited collaborator call is a suspension point: there the call    *)
(* returns one of its outcomes, an exception is raised, or an external      *)
(* actor clears the active flag.  Floats are kept as exact fractions.       *)
(***************************************************************************)
EXTENDS Integers, Sequences, FiniteSets, TLC

\* ------------------------------------------------------------------ bounds
\* training.questions_per_cycle of the configuration (the requested batch).
QuestionsPerCycle == 1
\* Largest --cycles argument drawn; the configured default is one more, so
\* that a given maximum and the default can be told apart.
MaxCyclesArg == 1
\* training.max_plateau_cycles of the configuration (the window capacity W).
MaxPlateau == 1
\* The requested batch of a cycle examined on its own.
MaxBatch == 5

\* -------------------------------------------------------- program constants
\* `recent_avg < 0.01` : the plateau threshold as the fraction 1/100.
PlateauNum == 1
PlateauDen == 100

VARIABLES
    pc,                \* position of the main coroutine
    mode,              \* args.mode
    args_cycles,       \* args.cycles: [given, val]; given = FALSE is None
    config,            \* config['training']
    components,        \* which of teacher/student/evaluator are not None
    init_result,       \* value returned by initialize_system
    teacher_conn,      \* what TeacherAIController.verify_connection returned
    student_check,     \* how StudentAIModel.verify_model ended
    training_state,    \* orchestrator.training_state
    max_cycles,        \* local max_cycles of run_full_training
    cycle,             \* loop variable of `for cycle in range(max_cycles)`
    cycle_results,     \* local cycle_results of execute_training_cycle
    questions,         \* questions of the batch not yet processed
    evaluation,        \* verdict on the current question, and whether corrected
    training_results,  \* local training_results of run_full_training
    exc,               \* exception in flight or last raised ("none" if none)
    exc_site,          \* the await at which it was raised
    stop_decision,     \* what _should_stop_training decided for the last cycle
    run_exit,          \* how run_full_training was left
    calls,             \* how many times each collaborator step was invoked
    persisted,         \* what the Result Sink received
    final_eval_arg,    \* the baseline handed to run_final_evaluation
    cycle_trace        \* what the collaborators were asked and answered in the
                       \* cycle that runs or ran last, and training_state as
                       \* that cycle found it

vars == <<pc, mode, args_cycles, config, components, init_result, teacher_conn,
          student_check, training_state, max_cycles, cycle, cycle_results,
          questions, evaluation, training_results, exc, exc_site,
          stop_decision, run_exit, calls, persisted, final_eval_arg,
          cycle_trace>>

\* ------------------------------------------------------------- fractions
Rat(n, d) == [num |-> n, den |-> d]
RatGe(a, b) == a.num * b.den >= b.num * a.den
RatLt(a, b) == a.num * b.den < b.num * a.den
RatLe(a, b) == a.num * b.den <= b.num * a.den
RatAdd(a, b) == Rat(a.num * b.den + b.num * a.den, a.den * b.den)

RECURSIVE SumRat(_)
\* Python sum() over a list of floats.
SumRat(s) == IF s = <<>> THEN Rat(0, 1) ELSE RatAdd(s[1], SumRat(Tail(s)))

Max(a, b) == IF a >= b THEN a ELSE b

\* dict.get(key, default)
DictGet(d, k, default) == IF k \in DOMAIN d THEN d[k] ELSE default

\* ---------------------------------------------------------- value spaces
DefaultMaxCycles == MaxCyclesArg + 1
Modes == {"train", "evaluate", "status"}
ExcKinds == {"Exception", "KeyboardInterrupt"}
\* training.min_accuracy_threshold values drawn: one that a cycle can fall
\* below, meet exactly and exceed.
Thresholds == {Rat(1, 2)}
Baselines == {"b0"}
Verdicts == {"correct", "incorrect", "degraded"}

\* `'performance_metrics': {}` : the metrics before _calculate_metrics ran.
NoMetrics == [accuracy |-> Rat(0, 1), improvement_rate |-> Rat(0, 1),
              learning_efficiency |-> Rat(0, 1)]

NoCycle == [cycle_number |-> 0, questions_processed |-> 0, correct_answers |-> 0,
            improvements_made |-> 0, performance_metrics |-> NoMetrics]

NoEvaluation == [verdict |-> "none", corrected |-> FALSE]

NoResults == [cycles_completed |-> 0, learning_progression |-> <<>>,
              final_evaluation |-> "none", baseline_performance |-> "none"]

NoCalls == [finalize |-> 0, baseline |-> 0, final_evaluation |-> 0, sink |-> 0,
            cycles_started |-> 0, save_model |-> 0, cleanup |-> 0,
            run |-> 0]

\* The record of a cycle's collaborator calls: questions returned, calls of
\* the Answerer, Evaluator and Corrector, questions marked correct,
\* corrections reported successful.
NoTrace == [batch |-> 0, answerer |-> 0, evaluator |-> 0, marked_correct |-> 0,
            corrector |-> 0, corrector_ok |-> 0,
            state_before |-> [current_cycle |-> 0,
                              total_questions_processed |-> 0,
                              improvements_detected |-> 0]]

\* The awaits of run_full_training and of execute_training_cycle.
CycleAwaits == {"generate_questions", "generate_answer", "evaluate_response",
                "apply_correction"}
RunAwaits == {"baseline", "final_evaluation", "save_results"} \cup CycleAwaits
CyclePcs == CycleAwaits \cup {"cycle_finish"}
RunPcs == RunAwaits \cup {"run_enter", "loop_head", "cycle_finish", "should_stop",
                          "run_finally"}

\* ------------------------------------------------------- pure functions
\* `max_cycles or self.config['training']['max_cycles']`: Python's `or`
\* yields the default when the argument is None and also when it is 0.
EffectiveMaxCycles(arg, cfg) ==
    IF arg.given /\ arg.val # 0 THEN arg.val ELSE cfg.max_cycles

\* The dictionary execute_training_cycle starts from.
NewCycleResults(state) ==
    [cycle_number |-> state.current_cycle, questions_processed |-> 0,
     correct_answers |-> 0, improvements_made |-> 0,
     performance_metrics |-> NoMetrics]

\* Mutant: the question is counted only in the branch of a wrong answer.
CountEvaluation_ProcessedInElse(cr, is_correct) ==
    IF is_correct
    THEN [cr EXCEPT !.correct_answers = @ + 1]
    ELSE [cr EXCEPT !.questions_processed = @ + 1]

\* Lines 111-114: the question is counted, then the verdict.
CountEvaluation(cr, is_correct) ==
    IF is_correct
    THEN [cr EXCEPT !.questions_processed = @ + 1, !.correct_answers = @ + 1]
    ELSE [cr EXCEPT !.questions_processed = @ + 1]

\* Mutant: every correction is counted, whatever the Corrector reported.
CountCorrection_Unconditional(cr, improvement) ==
    [cr EXCEPT !.improvements_made = @ + 1]

\* Lines 120-121: a correction that reports success is counted.
CountCorrection(cr, improvement) ==
    IF improvement THEN [cr EXCEPT !.improvements_made = @ + 1] ELSE cr

\* Mutant: the quotients taken without the test total_q > 0.
calculate_metrics_NoZeroGuard(cr) ==
    LET total_q == cr.questions_processed
        correct == cr.correct_answers
    IN  [accuracy |-> Rat(correct, total_q),
         improvement_rate |-> Rat(cr.improvements_made, total_q),
         learning_efficiency |->
            Rat(cr.improvements_made, Max(1, total_q - correct))]

\* Mutant: learning_efficiency divided by max(1, correct).
calculate_metrics_WrongDenominator(cr) ==
    LET total_q == cr.questions_processed
        correct == cr.correct_answers
    IN  [accuracy |-> IF total_q > 0 THEN Rat(correct, total_q) ELSE Rat(0, 1),
         improvement_rate |->
            IF total_q > 0 THEN Rat(cr.improvements_made, total_q) ELSE Rat(0, 1),
         learning_efficiency |->
            Rat(cr.improvements_made, Max(1, correct))]

\* Lines 139-148.
calculate_metrics(cr) ==
    LET total_q == cr.questions_processed
        correct == cr.correct_answers
    IN  [accuracy |-> IF total_q > 0 THEN Rat(correct, total_q) ELSE Rat(0, 1),
         improvement_rate |->
            IF total_q > 0 THEN Rat(cr.improvements_made, total_q) ELSE Rat(0, 1),
         learning_efficiency |->
            Rat(cr.improvements_made, Max(1, total_q - correct))]

\* Mutant: the counters are added up but current_cycle is not advanced.
UpdateTrainingState_NoCycleIncrement(state, cr) ==
    [state EXCEPT !.total_questions_processed = @ + cr.questions_processed,
                  !.improvements_detected = @ + cr.improvements_made]

\* Mutant: the cumulative question count grows by the correct answers.
UpdateTrainingState_AddsCorrectAnswers(state, cr) ==
    [state EXCEPT !.current_cycle = @ + 1,
                  !.total_questions_processed = @ + cr.correct_answers,
                  !.improvements_detected = @ + cr.improvements_made]

\* Lines 127-129: the cumulative counters after a cycle.
UpdateTrainingState(state, cr) ==
    [state EXCEPT !.current_cycle = @ + 1,
                  !.total_questions_processed = @ + cr.questions_processed,
                  !.improvements_detected = @ + cr.improvements_made]

\* Mutant: the threshold compared with > instead of >=.
TargetReached_Strict(cr, cfg) ==
    ~RatLe(cr.performance_metrics.accuracy, cfg.min_accuracy_threshold)

\* Line 200: accuracy >= min_accuracy.
TargetReached(cr, cfg) ==
    RatGe(cr.performance_metrics.accuracy, cfg.min_accuracy_threshold)

\* Lines 205-207: the window is read with .get('recent_improvements', []);
\* no line of the program stores that key in training_state.
PlateauDetected(state, cfg) ==
    LET recent == DictGet(state, "recent_improvements", <<>>)
    IN  /\ Len(recent) >= cfg.max_plateau_cycles
        /\ LET s == SumRat(recent)
               recent_avg == Rat(s.num, s.den * Len(recent))
           IN  RatLt(recent_avg, Rat(PlateauNum, PlateauDen))

should_stop_training(cr, state, cfg) ==
    IF TargetReached(cr, cfg) THEN TRUE
    ELSE IF PlateauDetected(state, cfg) THEN TRUE
    ELSE FALSE

\* Which rule of _should_stop_training returned.
StopRule(cr, state, cfg) ==
    IF TargetReached(cr, cfg) THEN "target"
    ELSE IF PlateauDetected(state, cfg) THEN "plateau"
    ELSE "continue"

\* Mutant: the next question goes to the Evaluator without an answer.
NextQuestion_SkipsAnswerer(remaining) ==
    IF remaining # <<>> THEN "evaluate_response" ELSE "cycle_finish"

\* `for question in questions`: the next await after a question is done.
NextQuestion(remaining) ==
    IF remaining # <<>> THEN "generate_answer" ELSE "cycle_finish"

\* The awaits on the student at which an Exception can reach the
\* orchestrator: the Answerer answers with a fallback text instead of
\* raising and a failed correction is the result False.
StudentRaisingAwaits == {}

\* An exception of class Exception reaches the orchestrator from the calls
\* that let it propagate; an interrupt can arrive at every await.
\* generate_questions and evaluate_response catch Exception themselves; the
\* configuration lookup of line 98 is inside the cycle's try.
CanRaise(site, kind) ==
    \/ kind = "KeyboardInterrupt"
    \/ kind = "Exception" /\ site \in {"baseline", "final_evaluation",
                                       "save_results", "generate_questions"}
                                      \cup StudentRaisingAwaits

Bump(c, site) == IF site \in DOMAIN c THEN [c EXCEPT ![site] = @ + 1] ELSE c

Init ==
    /\ pc = "main_start"
    /\ mode \in Modes
    /\ args_cycles \in {[given |-> FALSE, val |-> 0]}
                       \cup {[given |-> TRUE, val |-> m] : m \in 0..MaxCyclesArg}
    /\ config \in [questions_per_cycle : {QuestionsPerCycle},
                   max_cycles : {DefaultMaxCycles},
                   min_accuracy_threshold : Thresholds,
                   max_plateau_cycles : {MaxPlateau}]
    /\ components = [teacher |-> FALSE, student |-> FALSE, evaluator |-> FALSE]
    /\ init_result = "none"
    /\ teacher_conn = "none"
    /\ student_check = "none"
    /\ training_state = [current_cycle |-> 0, total_questions_processed |-> 0,
                         improvements_detected |-> 0, training_active |-> FALSE]
    /\ max_cycles = 0
    /\ cycle = 0
    /\ cycle_results = NoCycle
    /\ questions = <<>>
    /\ evaluation = NoEvaluation
    /\ training_results = NoResults
    /\ exc = "none"
    /\ exc_site = "none"
    /\ stop_decision = "none"
    /\ run_exit = "none"
    /\ calls = NoCalls
    /\ persisted = NoResults
    /\ final_eval_arg = "none"
    /\ cycle_trace = NoTrace


\* ------------------------------------------------------- main.py : main
\* Lines 21-36: without OPENAI_API_KEY main returns before an orchestrator
\* exists (no try block yet, so no finalize).
MainStart ==
    /\ pc = "main_start"
    /\ \E has_key \in BOOLEAN :
          pc' = IF has_key THEN "initialize_system" ELSE "done"
    /\ UNCHANGED <<cycle_trace, mode, args_cycles, config, components, init_result,
                   teacher_conn, student_check, training_state, max_cycles, cycle,
                   cycle_results, questions, evaluation, training_results, exc,
                   exc_site, stop_decision, run_exit, calls, persisted,
                   final_eval_arg>>

\* The components that exist when construction stops at fail_at (lines 54-60).
Constructed(fail_at) ==
    [teacher |-> fail_at \in {"student", "evaluator", "none"},
     student |-> fail_at \in {"evaluator", "none"},
     evaluator |-> fail_at = "none"]

\* initialize_system with _verify_connections.  An import or a constructor
\* may raise (fail_at); verify_connection catches its own failure and
\* returns False, and line 75 drops that value; verify_model returns or
\* raises (the only failure the try of line 52 can see).
InitializeSystem ==
    /\ pc = "initialize_system"
    /\ \E fail_at \in {"none", "import", "teacher", "student", "evaluator"},
          conn \in {"ok", "failed"}, sv \in {"ok", "raise"} :
          /\ components' = Constructed(fail_at)
          /\ teacher_conn' = IF fail_at = "none" THEN conn ELSE "none"
          /\ student_check' = IF fail_at = "none" THEN sv ELSE "none"
          /\ init_result' = IF fail_at = "none" /\ sv # "raise"
                            THEN "true" ELSE "false"
    /\ pc' = "main_dispatch"
    /\ UNCHANGED <<cycle_trace, mode, args_cycles, config, training_state, max_cycles, cycle,
                   cycle_results, questions, evaluation, training_results, exc,
                   exc_site, stop_decision, run_exit, calls, persisted,
                   final_eval_arg>>

\* Lines 40-62: a failed initialization returns (through the finally);
\* otherwise the mode decides.
MainDispatch ==
    /\ pc = "main_dispatch"
    /\ pc' = IF init_result # "true" THEN "finalize"
             ELSE IF mode = "status" THEN "finalize"
             ELSE IF mode = "evaluate" THEN "evaluate_baseline"
             ELSE "run_enter"
    /\ UNCHANGED <<cycle_trace, mode, args_cycles, config, components, init_result,
                   teacher_conn, student_check, training_state, max_cycles, cycle,
                   cycle_results, questions, evaluation, training_results, exc,
                   exc_site, stop_decision, run_exit, calls, persisted,
                   final_eval_arg>>

\* Lines 51-57, mode evaluate: only the baseline evaluation, which may raise.
MainEvaluate ==
    /\ pc = "evaluate_baseline"
    /\ calls' = Bump(calls, "baseline")
    /\ \E outcome \in {"none"} \cup ExcKinds :
          /\ exc' = outcome
          /\ exc_site' = IF outcome = "none" THEN "none" ELSE "evaluate_baseline"
    /\ pc' = "finalize"
    /\ UNCHANGED <<cycle_trace, mode, args_cycles, config, components, init_result,
                   teacher_conn, student_check, training_state, max_cycles, cycle,
                   cycle_results, questions, evaluation, training_results,
                   stop_decision, run_exit, persisted, final_eval_arg>>

\* ------------------------------------------ orchestrator.run_full_training
\* Mutant: the run goes to its baseline evaluation with the flag as it was.
RunEnter_FlagNotSet ==
    /\ pc = "run_enter"
    /\ max_cycles' = EffectiveMaxCycles(args_cycles, config)
    /\ training_results' = NoResults
    /\ cycle' = 0
    /\ calls' = Bump(calls, "run")
    /\ pc' = "baseline"
    /\ UNCHANGED <<cycle_trace, mode, args_cycles, config, components, init_result,
                   teacher_conn, student_check, cycle_results, questions,
                   evaluation, exc, exc_site, stop_decision, run_exit,
                   persisted, final_eval_arg, training_state>>

\* Lines 152-160.
RunEnter ==
    /\ pc = "run_enter"
    /\ max_cycles' = EffectiveMaxCycles(args_cycles, config)
    /\ training_results' = NoResults
    /\ training_state' = [training_state EXCEPT !.training_active = TRUE]
    /\ cycle' = 0
    /\ calls' = Bump(calls, "run")
    /\ pc' = "baseline"
    /\ UNCHANGED <<cycle_trace, mode, args_cycles, config, components, init_result,
                   teacher_conn, student_check, cycle_results, questions,
                   evaluation, exc, exc_site, stop_decision, run_exit,
                   persisted, final_eval_arg>>

\* Lines 164-165: the baseline snapshot is opaque to the orchestrator.
RunBaseline ==
    /\ pc = "baseline"
    /\ \E b \in Baselines :
          training_results' = [training_results EXCEPT !.baseline_performance = b]
    /\ calls' = Bump(calls, "baseline")
    /\ pc' = "loop_head"
    /\ UNCHANGED <<cycle_trace, mode, args_cycles, config, components, init_result,
                   teacher_conn, student_check, training_state, max_cycles, cycle,
                   cycle_results, questions, evaluation, exc, exc_site,
                   stop_decision, run_exit, persisted, final_eval_arg>>

\* The cumulative counters of training_state.
Counters(state) ==
    [current_cycle |-> state.current_cycle,
     total_questions_processed |-> state.total_questions_processed,
     improvements_detected |-> state.improvements_detected]

\* Mutant: the loop does not look at the active flag between cycles.
LoopHead_IgnoresFlag ==
    /\ pc = "loop_head"
    /\ IF cycle < max_cycles
       THEN /\ cycle' = cycle + 1
            /\ cycle_results' = NewCycleResults(training_state)
            /\ evaluation' = NoEvaluation
            /\ stop_decision' = "none"
            /\ calls' = Bump(calls, "cycles_started")
            /\ cycle_trace' = [NoTrace EXCEPT !.state_before =
                                  Counters(training_state)]
            /\ pc' = "generate_questions"
       ELSE /\ stop_decision' = "limit"
            /\ pc' = "final_evaluation"
            /\ UNCHANGED <<cycle, cycle_results, evaluation, calls, cycle_trace>>
    /\ UNCHANGED <<mode, args_cycles, config, components, init_result,
                   teacher_conn, student_check, training_state, max_cycles,
                   questions, training_results, exc, exc_site, run_exit,
                   persisted, final_eval_arg>>

\* Lines 168-170 and 85-94: the range is exhausted, or the flag is found
\* cleared (break), or the next cycle starts from a fresh cycle_results.
LoopHead ==
    /\ pc = "loop_head"
    /\ IF cycle < max_cycles /\ training_state.training_active
       THEN /\ cycle' = cycle + 1
            /\ cycle_results' = NewCycleResults(training_state)
            /\ evaluation' = NoEvaluation
            /\ stop_decision' = "none"
            /\ calls' = Bump(calls, "cycles_started")
            /\ cycle_trace' = [NoTrace EXCEPT !.state_before =
                                  Counters(training_state)]
            /\ pc' = "generate_questions"
       ELSE /\ stop_decision' = IF cycle >= max_cycles THEN "limit" ELSE "cancelled"
            /\ pc' = "final_evaluation"
            /\ UNCHANGED <<cycle, cycle_results, evaluation, calls, cycle_trace>>
    /\ UNCHANGED <<mode, args_cycles, config, components, init_result,
                   teacher_conn, student_check, training_state, max_cycles,
                   questions, training_results, exc, exc_site, run_exit,
                   persisted, final_eval_arg>>

\* ------------------------------------- orchestrator.execute_training_cycle
\* Lines 97-99 with TeacherAIController.generate_questions: the list holds
\* one record per entry of the reply's "questions" array, whatever count was
\* requested, and is empty when the call or the parsing failed.  The
\* questions are numbered in the order of the list.
QuestionList(n) == [k \in 1..n |-> k]

GenerateQuestions ==
    /\ pc = "generate_questions"
    /\ \E n \in 0..(config.questions_per_cycle + 1) :
          /\ questions' = QuestionList(n)
          /\ cycle_trace' = [cycle_trace EXCEPT !.batch = n]
          /\ pc' = NextQuestion(QuestionList(n))
    /\ UNCHANGED <<mode, args_cycles, config, components, init_result,
                   teacher_conn, student_check, training_state, max_cycles, cycle,
                   cycle_results, evaluation, training_results, exc, exc_site,
                   stop_decision, run_exit, calls, persisted, final_eval_arg>>

\* Line 104: the Answerer returns a text (a fallback text on failure).
GenerateAnswer ==
    /\ pc = "generate_answer"
    /\ pc' = "evaluate_response"
    /\ cycle_trace' = [cycle_trace EXCEPT !.answerer = @ + 1]
    /\ UNCHANGED <<mode, args_cycles, config, components, init_result,
                   teacher_conn, student_check, training_state, max_cycles, cycle,
                   cycle_results, questions, evaluation, training_results, exc,
                   exc_site, stop_decision, run_exit, calls, persisted,
                   final_eval_arg>>

\* evaluation['is_correct'] of each verdict: the degraded Evaluation that
\* evaluate_response returns from its except clause has is_correct False.
IsCorrect(verdict) == verdict = "correct"

\* Lines 107-115 with TeacherAIController.evaluate_response.
EvaluateResponse ==
    /\ pc = "evaluate_response"
    /\ \E v \in Verdicts :
          /\ cycle_results' = CountEvaluation(cycle_results, IsCorrect(v))
          /\ evaluation' = [verdict |-> v, corrected |-> FALSE]
          /\ cycle_trace' = [cycle_trace EXCEPT
                                !.evaluator = @ + 1,
                                !.marked_correct = IF v = "correct" THEN @ + 1 ELSE @]
          /\ IF IsCorrect(v)
             THEN /\ questions' = Tail(questions)
                  /\ pc' = NextQuestion(Tail(questions))
             ELSE /\ questions' = questions
                  /\ pc' = "apply_correction"
    /\ UNCHANGED <<mode, args_cycles, config, components, init_result,
                   teacher_conn, student_check, training_state, max_cycles, cycle,
                   training_results, exc, exc_site, stop_decision, run_exit, calls,
                   persisted, final_eval_arg>>

\* Lines 117-121: the Corrector reports whether an adjustment was made.
ApplyCorrection ==
    /\ pc = "apply_correction"
    /\ \E improvement \in BOOLEAN :
          /\ cycle_results' = CountCorrection(cycle_results, improvement)
          /\ evaluation' = [evaluation EXCEPT !.corrected = improvement]
          /\ cycle_trace' = [cycle_trace EXCEPT
                                !.corrector = @ + 1,
                                !.corrector_ok = IF improvement THEN @ + 1 ELSE @]
    /\ questions' = Tail(questions)
    /\ pc' = NextQuestion(Tail(questions))
    /\ UNCHANGED <<mode, args_cycles, config, components, init_result,
                   teacher_conn, student_check, training_state, max_cycles, cycle,
                   training_results, exc, exc_site, stop_decision, run_exit, calls,
                   persisted, final_eval_arg>>

\* Mutant: the result of the cycle is appended and not counted.
CycleFinish_AppendWithoutCount ==
    /\ pc = "cycle_finish"
    /\ LET done == [cycle_results EXCEPT !.performance_metrics =
                                            calculate_metrics(cycle_results)]
       IN  /\ cycle_results' = done
           /\ training_state' = UpdateTrainingState(training_state, done)
           /\ training_results' =
                 [training_results EXCEPT
                    !.learning_progression = Append(@, done)]
    /\ evaluation' = NoEvaluation
    /\ pc' = "should_stop"
    /\ UNCHANGED <<cycle_trace, mode, args_cycles, config, components, init_result,
                   teacher_conn, student_check, max_cycles, cycle, questions,
                   exc, exc_site, stop_decision, run_exit, calls,
                   persisted, final_eval_arg>>

\* Lines 124-133, then 173-174 in the caller: metrics, the cumulative
\* counters, the return (the locals of the loop body are gone), the append
\* and the count of completed cycles.
CycleFinish ==
    /\ pc = "cycle_finish"
    /\ LET done == [cycle_results EXCEPT !.performance_metrics =
                                            calculate_metrics(cycle_results)]
       IN  /\ cycle_results' = done
           /\ training_state' = UpdateTrainingState(training_state, done)
           /\ training_results' =
                 [training_results EXCEPT
                    !.learning_progression = Append(@, done),
                    !.cycles_completed = @ + 1]
    /\ evaluation' = NoEvaluation
    /\ pc' = "should_stop"
    /\ UNCHANGED <<cycle_trace, mode, args_cycles, config, components, init_result,
                   teacher_conn, student_check, max_cycles, cycle, questions,
                   exc, exc_site, stop_decision, run_exit, calls,
                   persisted, final_eval_arg>>

\* Lines 177-178: break when _should_stop_training returns True.
ShouldStop ==
    /\ pc = "should_stop"
    /\ stop_decision' = StopRule(cycle_results, training_state, config)
    /\ pc' = IF should_stop_training(cycle_results, training_state, config)
             THEN "final_evaluation" ELSE "loop_head"
    /\ UNCHANGED <<cycle_trace, mode, args_cycles, config, components, init_result,
                   teacher_conn, student_check, training_state, max_cycles, cycle,
                   cycle_results, questions, evaluation, training_results, exc,
                   exc_site, run_exit, calls, persisted, final_eval_arg>>

\* Mutant: the final evaluation is not given the baseline.
FinalEvaluation_NoBaseline ==
    /\ pc = "final_evaluation"
    /\ final_eval_arg' = "none"
    /\ training_results' = [training_results EXCEPT !.final_evaluation = "final"]
    /\ calls' = Bump(calls, "final_evaluation")
    /\ pc' = "save_results"
    /\ UNCHANGED <<cycle_trace, mode, args_cycles, config, components, init_result,
                   teacher_conn, student_check, training_state, max_cycles, cycle,
                   cycle_results, questions, evaluation, exc, exc_site,
                   stop_decision, run_exit, persisted>>

\* Lines 181-184: the final evaluation receives the baseline.
FinalEvaluation ==
    /\ pc = "final_evaluation"
    /\ final_eval_arg' = training_results.baseline_performance
    /\ training_results' = [training_results EXCEPT !.final_evaluation = "final"]
    /\ calls' = Bump(calls, "final_evaluation")
    /\ pc' = "save_results"
    /\ UNCHANGED <<cycle_trace, mode, args_cycles, config, components, init_result,
                   teacher_conn, student_check, training_state, max_cycles, cycle,
                   cycle_results, questions, evaluation, exc, exc_site,
                   stop_decision, run_exit, persisted>>

\* Lines 186-188 with _save_training_results: the Result Sink.
SaveTrainingResults ==
    /\ pc = "save_results"
    /\ persisted' = training_results
    /\ calls' = Bump(calls, "sink")
    /\ pc' = "run_finally"
    /\ UNCHANGED <<cycle_trace, mode, args_cycles, config, components, init_result,
                   teacher_conn, student_check, training_state, max_cycles, cycle,
                   cycle_results, questions, evaluation, training_results, exc,
                   exc_site, stop_decision, run_exit, final_eval_arg>>

\* The counter an await's call is counted under.
CallOf(site) ==
    IF site = "save_results" THEN "sink" ELSE site

\* The entry of cycle_trace an await's call is counted under.
TraceOf(site) ==
    IF site = "generate_answer" THEN "answerer"
    ELSE IF site = "evaluate_response" THEN "evaluator"
    ELSE IF site = "apply_correction" THEN "corrector"
    ELSE site

\* Mutant: a cycle that raises adds the questions it got through to the
\* cumulative count.
Raise_CountsPartialCycle ==
    /\ pc \in RunAwaits
    /\ \E kind \in ExcKinds :
          /\ CanRaise(pc, kind)
          /\ exc' = kind
    /\ exc_site' = pc
    /\ calls' = Bump(calls, CallOf(pc))
    /\ cycle_trace' = Bump(cycle_trace, TraceOf(pc))
    /\ training_state' =
          IF pc \in CycleAwaits
          THEN [training_state EXCEPT !.total_questions_processed =
                                          @ + cycle_results.questions_processed]
          ELSE training_state
    /\ pc' = "run_finally"
    /\ UNCHANGED <<mode, args_cycles, config, components, init_result,
                   teacher_conn, student_check, max_cycles, cycle,
                   cycle_results, questions, evaluation, training_results,
                   stop_decision, run_exit, persisted, final_eval_arg>>

\* An exception at an await of the run.  Inside a cycle it passes the
\* except of lines 135-137, which logs and re-raises; nothing between the
\* await and the finally of line 190 runs.
Raise ==
    /\ pc \in RunAwaits
    /\ \E kind \in ExcKinds :
          /\ CanRaise(pc, kind)
          /\ exc' = kind
    /\ exc_site' = pc
    /\ calls' = Bump(calls, CallOf(pc))
    /\ cycle_trace' = Bump(cycle_trace, TraceOf(pc))
    /\ pc' = "run_finally"
    /\ UNCHANGED <<mode, args_cycles, config, components, init_result,
                   teacher_conn, student_check, training_state, max_cycles, cycle,
                   cycle_results, questions, evaluation, training_results,
                   stop_decision, run_exit, persisted, final_eval_arg>>

\* Mutant: main calls finalize_training at the end of its try block, not in
\* a finally.
MainAfterRun_NoFinally(e) == IF e = "none" THEN "finalize" ELSE "done"

\* main.py 62-76: after the run returned (the result is printed) or raised
\* (one of the except clauses, or none for other BaseExceptions), main
\* goes on to its finally.
MainAfterRun(e) == "finalize"

\* Mutant: the flag is cleared at the end of the try block, not in a finally.
RunFinally_ClearOnlyOnReturn ==
    /\ pc = "run_finally"
    /\ training_state' = [training_state EXCEPT !.training_active =
                             IF exc = "none" THEN FALSE ELSE @]
    /\ run_exit' = IF exc = "none" THEN "returned" ELSE "raised"
    /\ pc' = MainAfterRun(exc)
    /\ UNCHANGED <<cycle_trace, mode, args_cycles, config, components, init_result,
                   teacher_conn, student_check, max_cycles, cycle, cycle_results,
                   questions, evaluation, training_results, exc, exc_site,
                   stop_decision, calls, persisted, final_eval_arg>>

\* Lines 190-191, then main.py 64-76: the flag is cleared whether the try
\* block returned or raised; the caller prints the result or handles the
\* exception and goes on to its own finally.
RunFinally ==
    /\ pc = "run_finally"
    /\ training_state' = [training_state EXCEPT !.training_active = FALSE]
    /\ run_exit' = IF exc = "none" THEN "returned" ELSE "raised"
    /\ pc' = MainAfterRun(exc)
    /\ UNCHANGED <<cycle_trace, mode, args_cycles, config, components, init_result,
                   teacher_conn, student_check, max_cycles, cycle, cycle_results,
                   questions, evaluation, training_results, exc, exc_site,
                   stop_decision, calls, persisted, final_eval_arg>>

\* finalize_training, called from the finally of main: save_model if a
\* student exists, cleanup if a teacher exists, then the flag.
FinalizeTraining ==
    /\ pc = "finalize"
    /\ LET c1 == Bump(calls, "finalize")
           c2 == IF components.student THEN Bump(c1, "save_model") ELSE c1
       IN  calls' = IF components.teacher THEN Bump(c2, "cleanup") ELSE c2
    /\ training_state' = [training_state EXCEPT !.training_active = FALSE]
    /\ pc' = "done"
    /\ UNCHANGED <<cycle_trace, mode, args_cycles, config, components, init_result,
                   teacher_conn, student_check, max_cycles, cycle, cycle_results,
                   questions, evaluation, training_results, exc, exc_site,
                   stop_decision, run_exit, persisted, final_eval_arg>>

\* An external actor (a status poller, a signal handler) clears the active
\* flag while the coroutine is suspended in an await of the run.
ExternalCancel ==
    /\ pc \in RunAwaits
    /\ training_state.training_active
    /\ training_state' = [training_state EXCEPT !.training_active = FALSE]
    /\ UNCHANGED <<pc, cycle_trace, mode, args_cycles, config, components, init_result,
                   teacher_conn, student_check, max_cycles, cycle, cycle_results,
                   questions, evaluation, training_results, exc, exc_site,
                   stop_decision, run_exit, calls, persisted, final_eval_arg>>

Next ==
    \/ MainStart
    \/ InitializeSystem
    \/ MainDispatch
    \/ MainEvaluate
    \/ RunEnter
    \/ RunBaseline
    \/ LoopHead
    \/ GenerateQuestions
    \/ GenerateAnswer
    \/ EvaluateResponse
    \/ ApplyCorrection
    \/ CycleFinish
    \/ ShouldStop
    \/ FinalEvaluation
    \/ SaveTrainingResults
    \/ Raise
    \/ RunFinally
    \/ FinalizeTraining
    \/ ExternalCancel

Spec == Init /\ [][Next]_vars

\* The coroutine keeps running: every awaited call returns or raises.
FairSpec == Spec /\ WF_vars(Next)

\* ------------------------------------------------------------------ claims
LastCycle == training_results.learning_progression[
                Len(training_results.learning_progression)]

AfterLoopPcs == {"final_evaluation", "save_results", "run_finally", "finalize",
                 "done"}

\* C1: once run_full_training has exited, by return or by exception, the
\* active flag is false; and it exits by exception exactly when an await of
\* the run raised (the exception reaches the caller).
C1_ActiveFlagClearedOnExit ==
    run_exit # "none" =>
        /\ training_state.training_active = FALSE
        /\ (run_exit = "raised") = (exc # "none" /\ exc_site \in RunAwaits)

\* C1 witness: a run left by an exception raised inside a cycle.
C1_Witness ==
    /\ pc = "finalize"
    /\ run_exit = "raised"
    /\ exc_site \in CycleAwaits
    /\ training_state.training_active = FALSE
    /\ training_results.cycles_completed >= 1

\* The entry point reached the run: train mode after a successful
\* initialization.
RunReached ==
    /\ mode = "train"
    /\ init_result = "true"
    /\ pc \notin {"main_start", "initialize_system", "main_dispatch"}

C2_FinalizeSafety ==
    RunReached =>
        /\ calls.finalize <= 1
        /\ (pc \in RunPcs => calls.finalize = 0)
        /\ (pc = "finalize" => calls.finalize = 0 /\ run_exit # "none")
        /\ (pc = "done" => calls.finalize = 1 /\ run_exit # "none")

\* C2: in an execution that reaches the run, finalize_training is never
\* invoked while the run is in progress, is invoked once the run has been
\* left (returned or raised), and is never invoked a second time.
C2_FinalizeExactlyOnce ==
    /\ [] C2_FinalizeSafety
    /\ (RunReached ~> (calls.finalize = 1 /\ pc = "done"))

\* C2 witness: main finished after an interrupt cut the run short.
C2_Witness ==
    /\ RunReached
    /\ pc = "done"
    /\ exc = "KeyboardInterrupt"
    /\ run_exit = "raised"
    /\ calls.finalize = 1

\* C3 (as claimed): no failure of a collaborator on a question aborts the
\* cycle, and the question it failed on is counted as processed, not
\* counted as correct and not corrected.
C3_QuestionFailureIsAbsorbed ==
    /\ (run_exit = "raised" /\ exc = "Exception") =>
            exc_site \notin {"generate_answer", "evaluate_response",
                             "apply_correction"}
    /\ (pc \in CyclePcs /\ evaluation.verdict = "degraded") =>
            /\ cycle_results.questions_processed >= 1
            /\ cycle_results.correct_answers < cycle_results.questions_processed
            /\ evaluation.corrected = FALSE

\* The improvement_rate values of the last n completed cycles.
RECURSIVE RecentRates(_, _)
RecentRates(lp, n) ==
    IF n = 0 \/ lp = <<>> THEN <<>>
    ELSE Append(RecentRates(SubSeq(lp, 1, Len(lp) - 1), n - 1),
                lp[Len(lp)].performance_metrics.improvement_rate)

\* The plateau condition of the claim: W rates are there and their mean is
\* below 1/100.
ClaimedPlateau ==
    LET W == config.max_plateau_cycles
        window == RecentRates(training_results.learning_progression, W)
        total == SumRat(window)
    IN  /\ Len(window) = W
        /\ RatLt(Rat(total.num, total.den * W), Rat(PlateauNum, PlateauDen))

\* C4 (as claimed): after a cycle whose accuracy is below the threshold,
\* the stopping policy stops for plateau exactly when the last W improvement
\* rates are there and average below 0.01.
C4_PlateauFiresIffWindowFlat ==
    stop_decision \in {"plateau", "continue"} =>
        ((stop_decision = "plateau") = ClaimedPlateau)

\* The accuracy of a cycle result meets the threshold, from its counts.
ClaimedTarget(cr) ==
    /\ cr.questions_processed > 0
    /\ cr.correct_answers * config.min_accuracy_threshold.den
          >= config.min_accuracy_threshold.num * cr.questions_processed

\* C5: after every completed cycle the target rule fires exactly when
\* correct/processed >= the threshold (equality included), and once it has
\* fired the loop is over: no further cycle is started.
C5_TargetRule ==
    /\ stop_decision \in {"target", "plateau", "continue"} =>
            ((stop_decision = "target") = ClaimedTarget(LastCycle))
    /\ stop_decision = "target" =>
            /\ pc \in AfterLoopPcs
            /\ calls.cycles_started = training_results.cycles_completed

\* C5 witness: a cycle that meets the threshold exactly stopped the loop.
C5_Witness ==
    /\ stop_decision = "target"
    /\ pc = "final_evaluation"
    /\ LastCycle.correct_answers * config.min_accuracy_threshold.den
          = config.min_accuracy_threshold.num * LastCycle.questions_processed
    /\ calls.cycles_started < max_cycles

\* C6 (as claimed): every run that has been left, however it ended, took
\* the final evaluation against the baseline and handed the TrainingResult
\* with all completed cycles to the Result Sink.
C6_EveryRunIsFinalized ==
    run_exit # "none" =>
        /\ calls.final_evaluation = 1
        /\ final_eval_arg = training_results.baseline_performance
        /\ calls.sink = 1
        /\ persisted = training_results

\* C6 (amended): a run whose loop ended without an exception (limit,
\* criterion or cancellation) goes on to the final evaluation, which gets
\* the baseline, and then to the Result Sink, which gets the TrainingResult
\* with every completed cycle; a run that returned did both once.  A run in
\* which the baseline evaluation or a cycle raised does neither, and one in
\* which the final evaluation raised hands nothing to the sink.
C6_FinalizedUnlessRaised ==
    /\ pc \in {"final_evaluation", "save_results"} =>
            /\ stop_decision \in {"limit", "target", "plateau", "cancelled"}
            /\ exc = "none"
    /\ pc = "save_results" =>
            /\ calls.final_evaluation = 1
            /\ final_eval_arg = training_results.baseline_performance
            /\ final_eval_arg \in Baselines
    /\ run_exit = "returned" =>
            /\ calls.final_evaluation = 1
            /\ final_eval_arg = training_results.baseline_performance
            /\ final_eval_arg \in Baselines
            /\ calls.sink = 1
            /\ persisted = training_results
            /\ Len(persisted.learning_progression) = calls.cycles_started
    /\ (run_exit = "raised" /\ exc_site \in {"baseline"} \cup CycleAwaits) =>
            /\ calls.final_evaluation = 0
            /\ calls.sink = 0
            /\ persisted = NoResults
    /\ (run_exit = "raised" /\ exc_site = "final_evaluation") =>
            persisted = NoResults

\* C6 witness: a run that completed a cycle, was then stopped and returned
\* with its result persisted.
C6_Witness ==
    /\ run_exit = "returned"
    /\ Len(persisted.learning_progression) >= 1
    /\ persisted.final_evaluation = "final"
    /\ stop_decision \in {"target", "cancelled"}

\* C7 (as claimed): when a verification step of initialize_system failed,
\* initialize_system returned False and neither a cycle nor a baseline
\* evaluation is run.
C7_FailedVerificationAborts ==
    (teacher_conn = "failed" \/ student_check = "raise") =>
        /\ init_result = "false"
        /\ pc \notin RunPcs \cup {"evaluate_baseline"}
        /\ calls.cycles_started = 0
        /\ calls.baseline = 0

CountsInOrder(cr) ==
    /\ cr.correct_answers <= cr.questions_processed
    /\ cr.improvements_made <= cr.questions_processed - cr.correct_answers

\* C8: at every point of a cycle and in every CycleResult returned,
\* correct_answers <= questions_processed and
\* improvements_made <= questions_processed - correct_answers.
C8_CountsInOrder ==
    /\ CountsInOrder(cycle_results)
    /\ \A i \in 1..Len(training_results.learning_progression) :
          CountsInOrder(training_results.learning_progression[i])

\* C8 witness: inside a cycle, one answer correct and every wrong one
\* corrected.
C8_Witness ==
    /\ pc \in CyclePcs
    /\ cycle_results.correct_answers >= 1
    /\ cycle_results.improvements_made >= 1
    /\ cycle_results.improvements_made
          = cycle_results.questions_processed - cycle_results.correct_answers

\* A fraction with positive denominator that lies in [0, 1].
InUnitInterval(r) == r.den > 0 /\ 0 <= r.num /\ r.num <= r.den

\* The fraction r has the value n/d (d > 0).
HasValue(r, n, d) == r.den > 0 /\ r.num * d = n * r.den

MetricsAsClaimed(cr) ==
    LET m == cr.performance_metrics
        p == cr.questions_processed
        c == cr.correct_answers
        i == cr.improvements_made
    IN  /\ InUnitInterval(m.accuracy)
        /\ InUnitInterval(m.improvement_rate)
        /\ InUnitInterval(m.learning_efficiency)
        /\ IF p = 0 THEN m.accuracy.num = 0 /\ m.improvement_rate.num = 0
           ELSE HasValue(m.accuracy, c, p) /\ HasValue(m.improvement_rate, i, p)
        /\ HasValue(m.learning_efficiency, i, IF p - c >= 1 THEN p - c ELSE 1)

\* C9: the metrics of every CycleResult lie in [0, 1], with accuracy =
\* correct/processed and improvement_rate = improvements/processed (0 when
\* nothing was processed) and learning_efficiency = improvements /
\* max(1, processed - correct).
C9_MetricsInUnitInterval ==
    \A i \in 1..Len(training_results.learning_progression) :
        MetricsAsClaimed(training_results.learning_progression[i])

\* C9 witness: a completed cycle with every wrong answer corrected
\* (learning_efficiency 1) and a completed cycle with nothing processed.
C9_Witness ==
    /\ Len(training_results.learning_progression) = 2
    /\ training_results.learning_progression[1].questions_processed = 0
    /\ training_results.learning_progression[2].improvements_made
          = training_results.learning_progression[2].questions_processed
    /\ training_results.learning_progression[2].improvements_made >= 2

\* C10 (as claimed): with a maximum M given, M is the limit in force and at
\* most M cycles are run, exactly M when the loop ran into the limit; the
\* configured default is the limit only when no M was given.
C10_GivenMaximumIsTheLimit ==
    pc \in (RunPcs \ {"run_enter"}) \cup {"finalize", "done"} /\ RunReached =>
        /\ args_cycles.given => max_cycles = args_cycles.val
        /\ ~args_cycles.given => max_cycles = config.max_cycles
        /\ args_cycles.given => calls.cycles_started <= args_cycles.val
        /\ stop_decision = "limit" =>
              training_results.cycles_completed = max_cycles

\* The Question Source of the cycle that runs or ran last returned an empty
\* list.
EmptyBatchReturned ==
    /\ calls.cycles_started >= 1
    /\ cycle_trace.batch = 0
    /\ pc # "generate_questions"
    /\ exc_site # "generate_questions"

\* The fraction r is 0.0: a number, and zero.
IsZero(r) == r.den > 0 /\ r.num = 0

\* C11: when the Question Source returns an empty list the cycle goes
\* straight to its end without a call of the Answerer, the Evaluator or the
\* Corrector and without an error of its own, and it returns a CycleResult
\* with all counts 0 and accuracy = improvement_rate = 0.0 that is counted
\* as a completed cycle.
C11_ZeroQuestionCycle ==
    EmptyBatchReturned =>
        /\ cycle_trace.answerer = 0
        /\ cycle_trace.evaluator = 0
        /\ cycle_trace.corrector = 0
        /\ exc_site \notin CycleAwaits
        /\ \/ pc = "cycle_finish"
           \/ /\ training_results.cycles_completed = calls.cycles_started
              /\ LastCycle.questions_processed = 0
              /\ LastCycle.correct_answers = 0
              /\ LastCycle.improvements_made = 0
              /\ IsZero(LastCycle.performance_metrics.accuracy)
              /\ IsZero(LastCycle.performance_metrics.improvement_rate)
              /\ training_state.current_cycle
                    = cycle_trace.state_before.current_cycle + 1

\* C11 witness: a second cycle returned from an empty list.
C11_Witness ==
    /\ EmptyBatchReturned
    /\ pc = "should_stop"
    /\ training_results.cycles_completed = 2
    /\ LastCycle.questions_processed = 0

\* ---------------------------------------- a caller that runs a second time
\* An orchestrator that was constructed and initialized, whose caller is
\* about to call run_full_training with no maximum; no external actor
\* touches the active flag.
RerunInit ==
    /\ pc = "run_enter"
    /\ mode = "train"
    /\ args_cycles = [given |-> FALSE, val |-> 0]
    /\ config \in [questions_per_cycle : {QuestionsPerCycle},
                   max_cycles : {DefaultMaxCycles},
                   min_accuracy_threshold : Thresholds,
                   max_plateau_cycles : {MaxPlateau}]
    /\ components = Constructed("none")
    /\ init_result = "true"
    /\ teacher_conn = "ok"
    /\ student_check = "ok"
    /\ training_state = [current_cycle |-> 0, total_questions_processed |-> 0,
                         improvements_detected |-> 0, training_active |-> FALSE]
    /\ max_cycles = 0
    /\ cycle = 0
    /\ cycle_results = NoCycle
    /\ questions = <<>>
    /\ evaluation = NoEvaluation
    /\ training_results = NoResults
    /\ exc = "none"
    /\ exc_site = "none"
    /\ stop_decision = "none"
    /\ run_exit = "none"
    /\ calls = NoCalls
    /\ persisted = NoResults
    /\ final_eval_arg = "none"
    /\ cycle_trace = NoTrace

\* The caller, having got the exception of a first run in which a cycle
\* raised, calls run_full_training once more on the same orchestrator: the
\* orchestrator keeps its training_state (lines 24-29 run only in __init__),
\* the locals of the earlier call are gone.
RunAgain ==
    /\ pc = "finalize"
    /\ calls.run = 1
    /\ run_exit = "raised"
    /\ exc_site \in CycleAwaits
    /\ pc' = "run_enter"
    /\ calls' = [NoCalls EXCEPT !.run = calls.run]
    /\ exc' = "none"
    /\ exc_site' = "none"
    /\ run_exit' = "none"
    /\ stop_decision' = "none"
    /\ persisted' = NoResults
    /\ final_eval_arg' = "none"
    /\ cycle_results' = NoCycle
    /\ questions' = <<>>
    /\ evaluation' = NoEvaluation
    /\ cycle_trace' = NoTrace
    /\ training_results' = NoResults
    /\ UNCHANGED <<mode, args_cycles, config, components, init_result,
                   teacher_conn, student_check, training_state, max_cycles, cycle>>

RerunNext ==
    \/ RunEnter
    \/ RunBaseline
    \/ LoopHead
    \/ GenerateQuestions
    \/ GenerateAnswer
    \/ EvaluateResponse
    \/ ApplyCorrection
    \/ CycleFinish
    \/ ShouldStop
    \/ FinalEvaluation
    \/ SaveTrainingResults
    \/ Raise
    \/ RunFinally
    \/ RunAgain
    \/ FinalizeTraining

RerunSpec == RerunInit /\ [][RerunNext]_vars

\* The cycle numbers of a learning_progression go up by one from its first.
Consecutive(lp) ==
    \A i \in 1..Len(lp) : lp[i].cycle_number = lp[1].cycle_number + (i - 1)

\* C12: in the learning_progression of every run the cycle numbers go up by
\* exactly one without a gap, the cycle that runs carries the next number,
\* and the first run on a fresh orchestrator starts at 0; a run started
\* after a run in which a cycle raised is no exception.
C12_CycleNumbersConsecutive ==
    LET lp == training_results.learning_progression
    IN  /\ Consecutive(lp)
        /\ (calls.run = 1 /\ lp # <<>>) => lp[1].cycle_number = 0
        /\ (pc \in CyclePcs /\ lp # <<>>) =>
                cycle_results.cycle_number = lp[Len(lp)].cycle_number + 1
        /\ (pc \in CyclePcs /\ lp = <<>> /\ calls.run = 1) =>
                cycle_results.cycle_number = 0

\* C12 witness: a second run, started after a run that completed one cycle
\* and failed in the next, has completed two cycles, numbered 1 and 2.
C12_Witness ==
    /\ calls.run = 2
    /\ Len(training_results.learning_progression) = 2
    /\ training_results.learning_progression[1].cycle_number = 1
    /\ training_results.learning_progression[2].cycle_number = 2

\* ------------------------------------------------------------ cancellation
\* The active flag was cleared by the external actor while the run is in
\* its loop.
CancelledInLoop ==
    /\ pc \in CyclePcs \cup {"should_stop", "loop_head"}
    /\ ~training_state.training_active

\* A cycle that returned went through its whole batch, and its result is the
\* last of the learning_progression.
CycleRanToItsEnd ==
    /\ cycle_trace.answerer = cycle_trace.batch
    /\ cycle_trace.evaluator = cycle_trace.batch
    /\ training_results.cycles_completed = calls.cycles_started
    /\ LastCycle = cycle_results

\* C13: with the active flag cleared during a cycle, every step of the
\* cycle stays in the cycle unless a collaborator raises, the cycle ends only
\* with its batch exhausted and its result appended, no cycle is started
\* while the flag is cleared, and the check of the loop head then leaves
\* the loop.
C13_CooperativeCancellation ==
    /\ []((CancelledInLoop /\ pc = "cycle_finish") => questions = <<>>)
    /\ []((CancelledInLoop /\ pc \in {"should_stop", "loop_head"}
            /\ calls.cycles_started >= 1) => CycleRanToItsEnd)
    /\ [][(CancelledInLoop /\ pc \in CyclePcs /\ exc' = "none")
              => (pc' \in CyclePcs \cup {"should_stop"}
                  /\ ~(pc \in CycleAwaits /\ pc' = "generate_questions"))]_vars
    /\ [][~training_state.training_active
              => calls'.cycles_started = calls.cycles_started]_vars
    /\ [][(CancelledInLoop /\ pc = "loop_head")
              => (pc' = "final_evaluation"
                  /\ stop_decision' \in {"cancelled", "limit"})]_vars

\* C13 witness: the flag was cleared during the first cycle, which had a
\* question; the cycle went through its batch and was appended, and the loop
\* head, with cycles left to run, ended the loop.
C13_Witness ==
    /\ pc = "final_evaluation"
    /\ stop_decision = "cancelled"
    /\ cycle < max_cycles
    /\ training_results.cycles_completed = 1
    /\ cycle_trace.batch >= 1
    /\ CycleRanToItsEnd

\* ------------------------------------------------- one cycle, on its own
\* run_full_training is about to start the only cycle of a run whose
\* configuration asks for MaxBatch questions; no collaborator raises and
\* nothing touches the active flag.
CycleInit ==
    /\ pc = "loop_head"
    /\ mode = "train"
    /\ args_cycles = [given |-> TRUE, val |-> 1]
    /\ config \in [questions_per_cycle : {MaxBatch},
                   max_cycles : {DefaultMaxCycles},
                   min_accuracy_threshold : Thresholds,
                   max_plateau_cycles : {MaxPlateau}]
    /\ components = Constructed("none")
    /\ init_result = "true"
    /\ teacher_conn = "ok"
    /\ student_check = "ok"
    /\ training_state = [current_cycle |-> 0, total_questions_processed |-> 0,
                         improvements_detected |-> 0, training_active |-> TRUE]
    /\ max_cycles = 1
    /\ cycle = 0
    /\ cycle_results = NoCycle
    /\ questions = <<>>
    /\ evaluation = NoEvaluation
    /\ \E b \in Baselines :
          training_results = [NoResults EXCEPT !.baseline_performance = b]
    /\ exc = "none"
    /\ exc_site = "none"
    /\ stop_decision = "none"
    /\ run_exit = "none"
    /\ calls = [NoCalls EXCEPT !.run = 1, !.baseline = 1]
    /\ persisted = NoResults
    /\ final_eval_arg = "none"
    /\ cycle_trace = NoTrace

CycleNext ==
    \/ LoopHead
    \/ GenerateQuestions
    \/ GenerateAnswer
    \/ EvaluateResponse
    \/ ApplyCorrection
    \/ CycleFinish

CycleSpec == CycleInit /\ [][CycleNext]_vars

\* C14: the CycleResult a cycle returns counts the questions of the batch,
\* the questions the Evaluator marked correct and the corrections the
\* Corrector reported as made; the Corrector was called once for each
\* question not marked correct, and is never called on a correct one.
C14_CountsMatchVerdicts ==
    /\ pc = "apply_correction" =>
          (evaluation.verdict # "correct"
           /\ cycle_trace.corrector = cycle_trace.evaluator - cycle_trace.marked_correct - 1)
    /\ pc \in {"generate_answer", "cycle_finish", "should_stop"} =>
          cycle_trace.corrector = cycle_trace.evaluator - cycle_trace.marked_correct
    /\ pc = "should_stop" =>
          /\ LastCycle.questions_processed = cycle_trace.batch
          /\ LastCycle.correct_answers = cycle_trace.marked_correct
          /\ LastCycle.improvements_made = cycle_trace.corrector_ok
          /\ cycle_trace.corrector = cycle_trace.batch - cycle_trace.marked_correct

\* C14 witness: a batch of 5 with 2 questions marked correct, 3 corrections
\* of which 2 were reported as made, returns 5, 2, 2.
C14_Witness ==
    /\ pc = "should_stop"
    /\ cycle_trace.batch = 5
    /\ cycle_trace.marked_correct = 2
    /\ cycle_trace.corrector = 3
    /\ cycle_trace.corrector_ok = 2
    /\ LastCycle.questions_processed = 5
    /\ LastCycle.correct_answers = 2
    /\ LastCycle.improvements_made = 2

\* C15 (as claimed): a question whose evaluation failed, so that the
\* Evaluator returned its degraded Evaluation, is not handed to the
\* Corrector, and no improvement is counted for it.
C15_NoCorrectionAfterFailedEvaluation ==
    /\ pc = "apply_correction" => evaluation.verdict # "degraded"
    /\ (pc \in CyclePcs /\ evaluation.verdict = "degraded") =>
            /\ ~evaluation.corrected
            /\ cycle_results.improvements_made <=
                   cycle_results.questions_processed
                      - cycle_results.correct_answers - 1

\* C16 (as claimed): after each completed cycle the window that the plateau
\* rule reads holds the improvement rates of the last min(k, W) cycles, oldest
\* first, and never more than W of them.
C16_WindowIsSlidingBuffer ==
    LET W == config.max_plateau_cycles
        lp == training_results.learning_progression
        k == IF Len(lp) <= W THEN Len(lp) ELSE W
        window == DictGet(training_state, "recent_improvements", <<>>)
    IN  pc \in {"should_stop", "loop_head"} =>
            /\ Len(window) <= W
            /\ window = RecentRates(lp, k)

\* ---------------------------------------- the cycle and the training state
\* A step of execute_training_cycle: every one of them moves the coroutine.
CycleStep == pc \in CyclePcs /\ pc' # pc

CurrentQuestion == Head(questions)

\* C18: the coroutine is suspended in at most one collaborator call.  The
\* questions of a batch are taken one at a time in the order of the list;
\* each is answered, then evaluated, then corrected only when it was not
\* marked correct, and the next is not begun before; a cycle begins only
\* at the loop head, which is reached from the baseline or from the
\* stopping check of a cycle that was appended.
C18_OneCallAtATimeInOrder ==
    /\ [](pc = "generate_answer" =>
            /\ questions # <<>>
            /\ CurrentQuestion = cycle_results.questions_processed + 1
            /\ cycle_trace.answerer = cycle_results.questions_processed
            /\ cycle_trace.evaluator = cycle_trace.answerer
            /\ cycle_trace.corrector =
                  cycle_trace.evaluator - cycle_trace.marked_correct)
    /\ [](pc = "evaluate_response" =>
            /\ questions # <<>>
            /\ CurrentQuestion = cycle_results.questions_processed + 1
            /\ cycle_trace.answerer = CurrentQuestion
            /\ cycle_trace.evaluator = CurrentQuestion - 1)
    /\ [](pc = "apply_correction" =>
            /\ questions # <<>>
            /\ CurrentQuestion = cycle_results.questions_processed
            /\ cycle_trace.answerer = CurrentQuestion
            /\ cycle_trace.evaluator = CurrentQuestion
            /\ ~IsCorrect(evaluation.verdict)
            /\ cycle_trace.corrector =
                  cycle_trace.evaluator - cycle_trace.marked_correct - 1)
    /\ []((pc = "loop_head" /\ calls.cycles_started >= 1) =>
            /\ training_results.cycles_completed = calls.cycles_started
            /\ stop_decision = "continue")
    /\ [][(pc' # pc /\ pc' = "evaluate_response") => pc = "generate_answer"]_vars
    /\ [][(pc' # pc /\ pc' = "apply_correction") => pc = "evaluate_response"]_vars
    /\ [][(pc' # pc /\ pc' = "generate_answer") =>
              /\ pc \in {"generate_questions", "evaluate_response", "apply_correction"}
              /\ pc = "evaluate_response" => IsCorrect(evaluation'.verdict)]_vars
    /\ [][(pc' # pc /\ pc' = "generate_questions") => pc = "loop_head"]_vars
    /\ [][(pc' # pc /\ pc' = "loop_head") => pc \in {"baseline", "should_stop"}]_vars

\* C18 witness: in the second cycle of a run the second question of the
\* batch, answered and evaluated after the first, is with the Corrector.
C18_Witness ==
    /\ pc = "apply_correction"
    /\ calls.cycles_started = 2
    /\ training_results.cycles_completed = 1
    /\ CurrentQuestion = 2
    /\ cycle_trace.answerer = 2
    /\ cycle_trace.evaluator = 2

\* ------------------------------------------- baseline and final evaluation
\* The places of a run after its baseline evaluation returned and before
\* its loop is left.
LoopPcs == CyclePcs \cup {"loop_head", "should_stop"}

\* C19: a run evaluates the baseline once, as the first thing after setting
\* the active flag and before any cycle; a run that leaves its loop
\* without an exception then makes the final evaluation, once, with that
\* baseline, after every cycle it started was appended, and calls the
\* Result Sink once, after the final evaluation and with nothing run since.
C19_BaselineFirstFinalEvaluationLast ==
    /\ [](RunReached => calls.baseline <= 1)
    /\ []((RunReached /\ pc \in {"run_enter", "baseline"}) =>
             /\ calls.baseline = 0
             /\ calls.cycles_started = 0)
    /\ []((RunReached /\ pc \in LoopPcs \cup {"final_evaluation", "save_results"}) =>
             /\ calls.baseline = 1
             /\ training_results.baseline_performance \in Baselines)
    /\ [][(pc' # pc /\ pc' = "baseline") =>
             (pc = "run_enter" /\ training_state'.training_active)]_vars
    /\ [](pc = "final_evaluation" =>
             /\ training_results.cycles_completed = calls.cycles_started
             /\ calls.final_evaluation = 0
             /\ calls.sink = 0)
    /\ [](pc = "save_results" =>
             /\ calls.final_evaluation = 1
             /\ final_eval_arg = training_results.baseline_performance
             /\ calls.sink = 0)
    /\ [](run_exit = "returned" =>
             /\ calls.baseline = 1
             /\ calls.final_evaluation = 1
             /\ calls.sink = 1
             /\ final_eval_arg = persisted.baseline_performance
             /\ persisted.baseline_performance \in Baselines)
    /\ [][(pc \in AfterLoopPcs) =>
             /\ calls'.cycles_started = calls.cycles_started
             /\ calls'.baseline = calls.baseline]_vars

\* C19 witness: a run that used up its cycles returned, having evaluated
\* the baseline once, run its cycles, made the final evaluation with the
\* baseline and called the sink.
C19_Witness ==
    /\ run_exit = "returned"
    /\ stop_decision = "limit"
    /\ calls.baseline = 1
    /\ calls.cycles_started >= 1
    /\ calls.final_evaluation = 1
    /\ calls.sink = 1
    /\ final_eval_arg \in Baselines

\* C20 (as claimed): the list that generate_questions returns for a request
\* of N questions has at most N entries, so that no cycle processes more
\* than N questions.
C20_BatchWithinRequest ==
    pc \in CyclePcs \cup {"should_stop"} =>
        /\ cycle_trace.batch <= config.questions_per_cycle
        /\ Len(questions) <= config.questions_per_cycle
        /\ cycle_results.questions_processed <= config.questions_per_cycle

\* --------------------------------------------- the count of completed cycles
\* The places of run_full_training between two cycles and after the loop.
BetweenCyclePcs == {"loop_head", "should_stop", "final_evaluation", "save_results"}

\* C21: wherever the run is, cycles_completed is the length of
\* learning_progression, and so it is in the TrainingResult handed to the
\* sink and returned; a cycle in progress is in neither yet, and a cycle
\* that raised never gets into either.
C21_CompletedIsLengthOfProgression ==
    /\ Len(training_results.learning_progression) = training_results.cycles_completed
    /\ pc \in BetweenCyclePcs =>
          training_results.cycles_completed = calls.cycles_started
    /\ run_exit = "returned" =>
          /\ persisted = training_results
          /\ Len(persisted.learning_progression) = persisted.cycles_completed
          /\ persisted.cycles_completed = calls.cycles_started
    /\ pc \in CycleAwaits \cup {"cycle_finish"} =>
          training_results.cycles_completed = calls.cycles_started - 1
    /\ (exc # "none" /\ exc_site \in CycleAwaits) =>
          /\ training_results.cycles_completed = calls.cycles_started - 1
          /\ Len(training_results.learning_progression) = calls.cycles_started - 1

\* C21 witness: the second cycle of a run raised after a question of it had
\* been evaluated; the TrainingResult holds and counts the first cycle only.
C21_Witness ==
    /\ run_exit = "raised"
    /\ exc_site \in CycleAwaits
    /\ calls.cycles_started = 2
    /\ cycle_results.questions_processed >= 1
    /\ training_results.cycles_completed = 1
    /\ Len(training_results.learning_progression) = 1

\* ------------------------------------------------- the cumulative counters
\* The sums of questions_processed and of improvements_made over the
\* CycleResults of a sequence.
RECURSIVE SumQuestions(_)
SumQuestions(lp) ==
    IF lp = <<>> THEN 0 ELSE lp[1].questions_processed + SumQuestions(Tail(lp))

RECURSIVE SumImprovements(_)
SumImprovements(lp) ==
    IF lp = <<>> THEN 0 ELSE lp[1].improvements_made + SumImprovements(Tail(lp))

\* The counters that the cycles which returned a CycleResult account for.
CountersOf(lp) ==
    [current_cycle |-> Len(lp),
     total_questions_processed |-> SumQuestions(lp),
     improvements_detected |-> SumImprovements(lp)]

\* C22: on an orchestrator whose counters started at 0 the three counters
\* are, at every moment, the number of cycles that returned and the sums
\* of their questions_processed and improvements_made; a cycle that raised,
\* whatever it had answered and corrected, left them as they were when it
\* began.
C22_CountersFollowCompletedCycles ==
    /\ Counters(training_state) = CountersOf(training_results.learning_progression)
    /\ (exc # "none" /\ exc_site \in CycleAwaits) =>
          Counters(training_state) = cycle_trace.state_before

\* C22 witness: after a cycle that returned, a second cycle had a question
\* answered, evaluated and corrected and then raised; the counters are
\* those of the first cycle.
C22_Witness ==
    /\ run_exit = "raised"
    /\ exc_site \in CycleAwaits
    /\ Len(training_results.learning_progression) = 1
    /\ cycle_trace.answerer >= 1
    /\ cycle_trace.corrector_ok >= 1
    /\ cycle_results.questions_processed >= 1
    /\ training_state.current_cycle = 1
    /\ training_state.total_questions_processed = LastCycle.questions_processed
    /\ training_state.improvements_detected = LastCycle.improvements_made

====
